---- MODULE Spec2Model ----
(***************************************************************************)
(* Model of scripts/update_coffee_embeddings.py: the embedding             *)
(* synchronization pipeline (change detection, embedding generation,       *)
(* batched persistence, exit status).                                      *)
(*                                                                         *)
(* Abstractions:                                                           *)
(*  - an embedding is represented by its number of elements (0 stands for  *)
(*    None / an empty list, both falsy in Python);                         *)
(*  - a timestamp is the string the gateway returns, here a fixed-width    *)
(*    sequence of digits, compared as Python compares str (lexicographic); *)
(*    an absent timestamp (None) is the empty sequence;                    *)
(*  - a flavor tag is the set of flavor_map keywords it contains as a      *)
(*    lower-cased substring;                                               *)
(*  - the external services answer per record as fixed by openai_reply and *)
(*    rpc_reply, so two runs over the same inputs can be compared.         *)
(***************************************************************************)
EXTENDS Integers, Sequences, FiniteSets, TLC

\* ---------------------------------------------------------------- bounds
MaxCoffees == 3
MaxBatch == 2
MaxLogs == 2

\* ------------------------------------------------------ program constants
VECTOR_DIMENSIONS == 1536
BATCH_SIZE == 5
BASE_LEN == 5
DELAY_BETWEEN_REQUESTS == 1
DELAY_BETWEEN_BATCHES == 3
EXIT_MISSING_CREDENTIALS == 1
EXIT_CLIENT_INIT == 1
EXIT_INTERRUPTED == 1
EXIT_UNHANDLED == 1

Min(a, b) == IF a < b THEN a ELSE b

\* ------------------------------------------------ fallback generator data
\* flavor_map, values in tenths, in dictionary (insertion) order
FlavorOrder == <<"fruity", "chocolate", "nutty", "floral", "spicy", "sweet", "bitter", "acidic">>

flavor_map ==
    [fruity    |-> <<8, 2, 1, 0, 3>>,
     chocolate |-> <<2, 9, 4, 1, 1>>,
     nutty     |-> <<3, 5, 8, 2, 1>>,
     floral    |-> <<7, 1, 2, 1, 6>>,
     spicy     |-> <<4, 2, 7, 5, 3>>,
     sweet     |-> <<5, 6, 3, 1, 2>>,
     bitter    |-> <<1, 4, 5, 8, 1>>,
     acidic    |-> <<6, 2, 1, 7, 4>>]

Keywords == {FlavorOrder[k] : k \in 1..Len(FlavorOrder)}

\* for flavor, vector in flavor_map.items(): if flavor in tag_lower: ... break
\* index of the first keyword contained in the tag, 0 when none matches
RECURSIVE FirstMatch(_, _)
FirstMatch(tag, k) ==
    IF k > Len(FlavorOrder) THEN 0
    ELSE IF FlavorOrder[k] \in tag THEN k
    ELSE FirstMatch(tag, k + 1)

\* base_vector in hundredths: starts at 0.1 each; a matched tag adds
\* 0.5 * flavor_val, an unmatched tag adds 0.05
RECURSIVE BaseVector(_, _, _)
BaseVector(flavor_tags, t, base) ==
    IF t > Len(flavor_tags) THEN base
    ELSE LET m == FirstMatch(flavor_tags[t], 1)
             next == IF m # 0
                     THEN [c \in 1..BASE_LEN |-> base[c] + 5 * flavor_map[FlavorOrder[m]][c]]
                     ELSE [c \in 1..BASE_LEN |-> base[c] + 5]
         IN  BaseVector(flavor_tags, t + 1, next)

\* sum(val**2 for val in base_vector), the square of the magnitude
RECURSIVE SumSquares(_, _)
SumSquares(vec, c) ==
    IF c > Len(vec) THEN 0 ELSE vec[c] * vec[c] + SumSquares(vec, c + 1)

\* for val in normalized: append; if len(full_embedding) >= D: break
RECURSIVE ExtendOnce(_, _, _)
ExtendOnce(n, c, width) ==
    IF c > width THEN n
    ELSE IF n + 1 >= VECTOR_DIMENSIONS THEN n + 1
    ELSE ExtendOnce(n + 1, c + 1, width)

\* one test of "while len(full_embedding) < VECTOR_DIMENSIONS" and, when it
\* holds, one run of its body
WhileStep(n, width) ==
    IF n < VECTOR_DIMENSIONS THEN ExtendOnce(n, 1, width) ELSE n

\* WhileStep applied times over; split in halves to keep the evaluation shallow
RECURSIVE Repeat(_, _, _)
Repeat(n, width, times) ==
    IF times = 0 THEN n
    ELSE IF times = 1 THEN WhileStep(n, width)
    ELSE LET half == {Repeat(n, width, times \div 2)}
         IN  CHOOSE r \in {Repeat(m, width, times - (times \div 2)) : m \in half} : TRUE

\* the while loop: every run of its body appends at least one element, so it
\* has ended after at most VECTOR_DIMENSIONS tests
ExtendFull(n, width) == Repeat(n, width, VECTOR_DIMENSIONS)

\* len(full_embedding) after the while loop of lines 248-255; normalized has
\* one element per element of base_vector, whatever the tags
FULL_EMBEDDING_LEN == ExtendFull(0, BASE_LEN)

\* number of elements of generate_fallback_embedding(flavor_tags);
\* 0 stands for the ZeroDivisionError of a zero magnitude (it cannot happen:
\* every component of base_vector stays >= 0.1)
generate_fallback_embedding(flavor_tags) ==
    LET base == BaseVector(flavor_tags, 1, [c \in 1..BASE_LEN |-> 10])
    IN  IF SumSquares(base, 1) = 0 THEN 0
        ELSE Min(FULL_EMBEDDING_LEN, VECTOR_DIMENSIONS)

\* ----------------------------------------------------- primary generator
\* variant: the dimension validation of lines 200-203 left out
generate_openai_embedding_unvalidated(reply) ==
    IF reply.raises THEN 0 ELSE reply.len

\* reply of the embedding service: it raises, or returns len elements
generate_openai_embedding(reply) ==
    IF reply.raises THEN 0
    ELSE IF reply.len # VECTOR_DIMENSIONS THEN 0
    ELSE reply.len

\* -------------------------------------------------------- change detector
\* Python's str comparison a > b
RECURSIVE StrGreater(_, _)
StrGreater(a, b) ==
    IF a = <<>> THEN FALSE
    ELSE IF b = <<>> THEN TRUE
    ELSE IF Head(a) # Head(b) THEN Head(a) > Head(b)
    ELSE StrGreater(Tail(a), Tail(b))

\* variant: created_at is not consulted when updated_at is absent
coffee_updated_only(coffee) == coffee.updated_at

\* coffee.get("updated_at") or coffee.get("created_at")
coffee_updated(coffee) ==
    IF coffee.updated_at # <<>> THEN coffee.updated_at ELSE coffee.created_at

\* the filter of lines 168-175
NeedsUpdate(coffee, last_update_time) ==
    IF coffee_updated(coffee) # <<>> /\ StrGreater(coffee_updated(coffee), last_update_time)
    THEN TRUE
    ELSE coffee.flavor_embedding = 0

\* variant: an empty update_logs table yields an empty work set
get_coffee_data_nolog_empty(rows, reachable, force_all, logs_ok, logs) ==
    IF ~reachable THEN [coffees |-> <<>>, last |-> <<>>, error |-> TRUE]
    ELSE IF rows = <<>> THEN [coffees |-> <<>>, last |-> <<>>, error |-> FALSE]
    ELSE IF force_all THEN [coffees |-> rows, last |-> <<>>, error |-> FALSE]
    ELSE IF ~logs_ok THEN [coffees |-> rows, last |-> <<>>, error |-> FALSE]
    ELSE IF logs = <<>> THEN [coffees |-> <<>>, last |-> <<>>, error |-> FALSE]
    ELSE LET last_update_time == logs[1]
         IN  [coffees |-> SelectSeq(rows, LAMBDA c : NeedsUpdate(c, last_update_time)),
              last |-> last_update_time, error |-> FALSE]

\* get_coffee_data: rows is the coffees table as read, reachable tells whether
\* that read succeeded, logs_ok / logs the read of update_logs.
\* Returns the work set and the last_update_time it used (<<>> when none).
get_coffee_data(rows, reachable, force_all, logs_ok, logs) ==
    IF ~reachable THEN [coffees |-> <<>>, last |-> <<>>, error |-> TRUE]
    ELSE IF rows = <<>> THEN [coffees |-> <<>>, last |-> <<>>, error |-> FALSE]
    ELSE IF force_all THEN [coffees |-> rows, last |-> <<>>, error |-> FALSE]
    ELSE IF ~logs_ok THEN [coffees |-> rows, last |-> <<>>, error |-> FALSE]
    ELSE IF logs = <<>> THEN [coffees |-> rows, last |-> <<>>, error |-> FALSE]
    ELSE LET last_update_time == logs[1]
         IN  [coffees |-> SelectSeq(rows, LAMBDA c : NeedsUpdate(c, last_update_time)),
              last |-> last_update_time, error |-> FALSE]

\* ------------------------------------------------------------------ state
VARIABLES
    pc,               \* position of main()
    catalog,          \* rows of the coffees table
    update_logs,      \* created_at of the rows of update_logs, as returned
    openai_reply,     \* per coffee id: the embedding service's reply
    rpc_reply,        \* per coffee id: update_coffee_flavor_vector's reply
    args,             \* parsed command line
    has_openai,
    coffees,          \* the work set
    last_update_time, \* the sync time the detector compared against
    i,                \* start offset of the current batch
    pos,              \* 1-based position in the current batch
    updated,
    failed,
    events,           \* external calls, sleeps and loop steps, in order
    log,              \* kinds of messages logged
    reported,         \* counts of the last "Updated/Failed" log line
    exit_status       \* <<>> while running, <<code>> once exited

vars == <<pc, catalog, update_logs, openai_reply, rpc_reply, args, has_openai,
          coffees, last_update_time, i, pos, updated, failed, events, log,
          reported, exit_status>>

env == <<catalog, update_logs, openai_reply, rpc_reply, args>>

Event(kind, id, n) == [ev |-> kind, id |-> id, n |-> n]

\* coffees[i:i+batch_size]
Batch(ws, start, size) == SubSeq(ws, start + 1, Min(start + size, Len(ws)))

batch == Batch(coffees, i, args.batch_size)

\* ----------------------------------------------------------------- inputs
NoKeyword == {}

GenOk == [raises |-> FALSE, len |-> VECTOR_DIMENSIONS]

GenReplies ==
    {[raises |-> TRUE, len |-> 0]} \cup
    {[raises |-> FALSE, len |-> n] :
        n \in {VECTOR_DIMENSIONS - 1, VECTOR_DIMENSIONS, VECTOR_DIMENSIONS + 1}}

RpcReplies == {"true", "false", "raise"}

\* a profile is a coffee row (without its id) together with the replies the
\* services give for it
Profile(tags, upd, cre, emb, gen, rpc) ==
    [flavor_tags |-> tags, updated_at |-> upd, created_at |-> cre,
     flavor_embedding |-> emb, gen |-> gen, rpc |-> rpc]

InitWith(Profiles, Logs, Args) ==
    /\ \E n \in 0..MaxCoffees :
         \E r \in [1..n -> Profiles] :
            /\ catalog = [k \in 1..n |->
                            [id |-> k, flavor_tags |-> r[k].flavor_tags,
                             updated_at |-> r[k].updated_at,
                             created_at |-> r[k].created_at,
                             flavor_embedding |-> r[k].flavor_embedding]]
            /\ openai_reply = [k \in 1..n |-> r[k].gen]
            /\ rpc_reply = [k \in 1..n |-> r[k].rpc]
    /\ update_logs \in Logs
    /\ args \in Args
    /\ pc = "start"
    /\ has_openai = FALSE
    /\ coffees = <<>>
    /\ last_update_time = <<>>
    /\ i = 0
    /\ pos = 1
    /\ updated = 0
    /\ failed = 0
    /\ events = <<>>
    /\ log = {}
    /\ reported = <<>>
    /\ exit_status = <<>>

\* ------------------------------------------------------- record processing
\* variant: the reply of the update RPC is not inspected (line 306 left out)
update_coffee_embedding_unchecked(coffee, gen_reply, rpc, with_openai, dry_run) ==
    IF coffee.flavor_tags = <<>>
    THEN [success |-> FALSE, calls |-> <<>>, stored |-> 0]
    ELSE LET embedding == IF with_openai
                          THEN generate_openai_embedding(gen_reply)
                          ELSE generate_fallback_embedding(coffee.flavor_tags)
             gen_call == Event(IF with_openai THEN "openai" ELSE "fallback",
                               coffee.id, embedding)
             rpc_call == Event("rpc", coffee.id, embedding)
         IN  IF embedding = 0
             THEN [success |-> FALSE, calls |-> <<gen_call>>, stored |-> 0]
             ELSE IF dry_run
             THEN [success |-> TRUE, calls |-> <<gen_call>>, stored |-> 0]
             ELSE [success |-> rpc # "raise", calls |-> <<gen_call, rpc_call>>,
                   stored |-> IF rpc = "true" THEN embedding ELSE 0]

\* variant: dry_run is not consulted before the update RPC (line 292 left out)
update_coffee_embedding_writes(coffee, gen_reply, rpc, with_openai, dry_run) ==
    IF coffee.flavor_tags = <<>>
    THEN [success |-> FALSE, calls |-> <<>>, stored |-> 0]
    ELSE LET embedding == IF with_openai
                          THEN generate_openai_embedding(gen_reply)
                          ELSE generate_fallback_embedding(coffee.flavor_tags)
             gen_call == Event(IF with_openai THEN "openai" ELSE "fallback",
                               coffee.id, embedding)
             rpc_call == Event("rpc", coffee.id, embedding)
         IN  IF embedding = 0
             THEN [success |-> FALSE, calls |-> <<gen_call>>, stored |-> 0]
             ELSE [success |-> rpc = "true", calls |-> <<gen_call, rpc_call>>,
                   stored |-> IF rpc = "true" THEN embedding ELSE 0]

\* variant: the test for empty flavor_tags (line 271) left out
update_coffee_embedding_noskip(coffee, gen_reply, rpc, with_openai, dry_run) ==
    LET embedding == IF with_openai
                     THEN generate_openai_embedding(gen_reply)
                     ELSE generate_fallback_embedding(coffee.flavor_tags)
        gen_call == Event(IF with_openai THEN "openai" ELSE "fallback",
                          coffee.id, embedding)
        rpc_call == Event("rpc", coffee.id, embedding)
    IN  IF embedding = 0
        THEN [success |-> FALSE, calls |-> <<gen_call>>, stored |-> 0]
        ELSE IF dry_run
        THEN [success |-> TRUE, calls |-> <<gen_call>>, stored |-> 0]
        ELSE [success |-> rpc = "true", calls |-> <<gen_call, rpc_call>>,
              stored |-> IF rpc = "true" THEN embedding ELSE 0]

\* update_coffee_embedding: success is the returned bool, calls the generator
\* and gateway calls it made, stored the embedding the gateway stored (0: none)
update_coffee_embedding(coffee, gen_reply, rpc, with_openai, dry_run) ==
    IF coffee.flavor_tags = <<>>
    THEN [success |-> FALSE, calls |-> <<>>, stored |-> 0]
    ELSE LET embedding == IF with_openai
                          THEN generate_openai_embedding(gen_reply)
                          ELSE generate_fallback_embedding(coffee.flavor_tags)
             gen_call == Event(IF with_openai THEN "openai" ELSE "fallback",
                               coffee.id, embedding)
             rpc_call == Event("rpc", coffee.id, embedding)
         IN  IF embedding = 0
             THEN [success |-> FALSE, calls |-> <<gen_call>>, stored |-> 0]
             ELSE IF dry_run
             THEN [success |-> TRUE, calls |-> <<gen_call>>, stored |-> 0]
             ELSE [success |-> rpc = "true", calls |-> <<gen_call, rpc_call>>,
                   stored |-> IF rpc = "true" THEN embedding ELSE 0]

\* ------------------------------------------------------- control of main()
\* the part of the state main()'s loop changes
Loop == [pc |-> pc, i |-> i, pos |-> pos, updated |-> updated, failed |-> failed,
         events |-> events, log |-> log, reported |-> reported,
         exit_status |-> exit_status]

Exit(st, code, message) ==
    [st EXCEPT !.pc = "exited", !.exit_status = <<code>>, !.log = @ \cup {message}]

\* lines 389-392, then main() returns
Finish(st) ==
    Exit([st EXCEPT !.reported = <<st.updated, st.failed>>], 0, "final_results")

\* variant: the range ends one batch early when the last batch is short
NextBatch_short(st) ==
    IF st.i + 2 * args.batch_size <= Len(coffees)
    THEN [st EXCEPT !.i = @ + args.batch_size, !.pos = 1, !.pc = "record",
                    !.events = Append(@, Event("batch", st.i + args.batch_size,
                        Len(Batch(coffees, st.i + args.batch_size, args.batch_size))))]
    ELSE Finish(st)

\* the next iteration of "for i in range(0, total_coffees, batch_size)"
NextBatch(st) ==
    IF st.i + args.batch_size < Len(coffees)
    THEN [st EXCEPT !.i = @ + args.batch_size, !.pos = 1, !.pc = "record",
                    !.events = Append(@, Event("batch", st.i + args.batch_size,
                        Len(Batch(coffees, st.i + args.batch_size, args.batch_size))))]
    ELSE Finish(st)

\* lines 375-387: progress report, then the delay between batches
EndBatch(st) ==
    LET told == [st EXCEPT !.reported = <<st.updated, st.failed>>,
                           !.log = @ \cup {"progress"}]
    IN  IF st.i + args.batch_size < Len(coffees) /\ args.batch_delay > 0
        THEN [told EXCEPT !.pc = "sleep_batch",
                          !.events = Append(@, Event("sleep_batch", 0, args.batch_delay))]
        ELSE NextBatch(told)

\* the next iteration of "for coffee in batch"
NextRecord(st) ==
    IF st.pos < Len(Batch(coffees, st.i, args.batch_size))
    THEN [st EXCEPT !.pos = @ + 1, !.pc = "record"]
    ELSE EndBatch(st)

\* variant: the test "coffee != batch[-1]" of line 372 left out
AfterUpdate_always(st, coffee) ==
    IF args.delay > 0
    THEN [st EXCEPT !.pc = "sleep_record",
                    !.events = Append(@, Event("sleep_record", coffee.id, args.delay))]
    ELSE NextRecord(st)

\* lines 371-373: the delay between requests
AfterUpdate(st, coffee) ==
    LET b == Batch(coffees, st.i, args.batch_size)
    IN  IF args.delay > 0 /\ coffee # b[Len(b)]
        THEN [st EXCEPT !.pc = "sleep_record",
                        !.events = Append(@, Event("sleep_record", coffee.id, args.delay))]
        ELSE NextRecord(st)

\* lines 344-357: set up tracking and enter the first batch; range() raises
\* ValueError for a zero step, which reaches the handler of line 401
EnterLoop(st, ws) ==
    IF args.batch_size = 0
    THEN Exit(st, EXIT_UNHANDLED, "unhandled_error")
    ELSE [st EXCEPT !.pc = "record", !.i = 0, !.pos = 1,
                    !.events = Append(@, Event("batch", 0, Len(Batch(ws, 0, args.batch_size))))]

Apply(st) ==
    /\ pc' = st.pc
    /\ i' = st.i
    /\ pos' = st.pos
    /\ updated' = st.updated
    /\ failed' = st.failed
    /\ events' = st.events
    /\ log' = st.log
    /\ reported' = st.reported
    /\ exit_status' = st.exit_status

\* ---------------------------------------------------------------- actions
\* initialize_clients
InitializeClients ==
    /\ pc = "start"
    /\ \E credentials, openai_key, client_ok \in BOOLEAN :
         IF ~credentials
         THEN /\ Apply(Exit(Loop, EXIT_MISSING_CREDENTIALS, "missing_credentials"))
              /\ UNCHANGED has_openai
         ELSE /\ has_openai' = openai_key
              /\ IF client_ok
                 THEN Apply([Loop EXCEPT !.pc = "fetch"])
                 ELSE Apply(Exit(Loop, EXIT_CLIENT_INIT, "client_init_failed"))
    /\ UNCHANGED <<env, coffees, last_update_time>>

\* main() lines 331-357: get_coffee_data and what follows up to the first
\* suspension point
FetchCoffees ==
    /\ pc = "fetch"
    /\ \E reachable, logs_ok \in BOOLEAN :
         LET r == get_coffee_data(catalog, reachable, args.force_all, logs_ok, update_logs)
             st == [Loop EXCEPT !.log = IF r.error THEN @ \cup {"error_fetching"} ELSE @]
         IN  /\ coffees' = r.coffees
             /\ last_update_time' = r.last
             /\ IF r.coffees = <<>>
                THEN Apply(Exit(st, 0, "no_coffees_need_updating"))
                ELSE IF ~has_openai /\ ~args.force_all
                THEN Apply([st EXCEPT !.pc = "prompt"])
                ELSE Apply(EnterLoop(st, r.coffees))
    /\ UNCHANGED <<env, has_openai>>

\* main() lines 339-342: input("Continue with fallback embeddings? [y/N]: ")
Prompt ==
    /\ pc = "prompt"
    /\ \E answer \in {"y", "n", "interrupt"} :
         CASE answer = "y" -> Apply(EnterLoop(Loop, coffees))
           [] answer = "n" -> Apply(Exit(Loop, 0, "cancelled_by_user"))
           [] OTHER -> Apply(Exit(Loop, EXIT_INTERRUPTED, "interrupted"))
    /\ UNCHANGED <<env, has_openai, coffees, last_update_time>>

\* variant: the else branch "failed += 1" of lines 368-369 left out
UpdateCoffee_uncounted ==
    /\ pc = "record"
    /\ LET coffee == batch[pos]
           r == update_coffee_embedding(coffee, openai_reply[coffee.id],
                                        rpc_reply[coffee.id], has_openai, args.dry_run)
           st == [Loop EXCEPT
                    !.updated = IF r.success THEN @ + 1 ELSE @,
                    !.events = Append(@, Event("record", coffee.id, 0)) \o r.calls]
       IN  /\ Apply(AfterUpdate(st, coffee))
           /\ catalog' = IF r.stored = 0 THEN catalog
                         ELSE [catalog EXCEPT ![coffee.id].flavor_embedding = r.stored]
    /\ UNCHANGED <<update_logs, openai_reply, rpc_reply, args, has_openai, coffees,
                   last_update_time>>

\* one iteration of "for coffee in batch" (lines 364-373) and, when the loops
\* go on without sleeping, the bookkeeping up to the next suspension point
UpdateCoffee ==
    /\ pc = "record"
    /\ LET coffee == batch[pos]
           r == update_coffee_embedding(coffee, openai_reply[coffee.id],
                                        rpc_reply[coffee.id], has_openai, args.dry_run)
           st == [Loop EXCEPT
                    !.updated = IF r.success THEN @ + 1 ELSE @,
                    !.failed = IF r.success THEN @ ELSE @ + 1,
                    !.events = Append(@, Event("record", coffee.id, 0)) \o r.calls]
       IN  /\ Apply(AfterUpdate(st, coffee))
           /\ catalog' = IF r.stored = 0 THEN catalog
                         ELSE [catalog EXCEPT ![coffee.id].flavor_embedding = r.stored]
    /\ UNCHANGED <<update_logs, openai_reply, rpc_reply, args, has_openai, coffees,
                   last_update_time>>

\* KeyboardInterrupt while client.embeddings.create blocks: "except Exception"
\* (line 206) does not catch it, the handler of line 398 does
InterruptInGenerate ==
    /\ pc = "record"
    /\ has_openai
    /\ batch[pos].flavor_tags # <<>>
    /\ Apply(Exit([Loop EXCEPT !.events = Append(@, Event("record", batch[pos].id, 0))
                                   \o <<Event("openai", batch[pos].id, 0)>>],
                  EXIT_INTERRUPTED, "interrupted"))
    /\ UNCHANGED <<env, has_openai, coffees, last_update_time>>

\* KeyboardInterrupt while supabase.rpc(...).execute() blocks; the gateway may
\* or may not have applied the update
InterruptInRpc ==
    /\ pc = "record"
    /\ LET coffee == batch[pos]
           r == update_coffee_embedding(coffee, openai_reply[coffee.id],
                                        rpc_reply[coffee.id], has_openai, args.dry_run)
       IN  /\ Len(r.calls) = 2
           /\ Apply(Exit([Loop EXCEPT !.events = Append(@, Event("record", coffee.id, 0))
                                          \o r.calls],
                         EXIT_INTERRUPTED, "interrupted"))
           /\ \E applied \in BOOLEAN :
                catalog' = IF applied /\ r.stored # 0
                           THEN [catalog EXCEPT ![coffee.id].flavor_embedding = r.stored]
                           ELSE catalog
    /\ UNCHANGED <<update_logs, openai_reply, rpc_reply, args, has_openai, coffees,
                   last_update_time>>

\* time.sleep(args.delay) returns
WakeRecord ==
    /\ pc = "sleep_record"
    /\ Apply(NextRecord(Loop))
    /\ UNCHANGED <<env, has_openai, coffees, last_update_time>>

\* time.sleep(args.batch_delay) returns
WakeBatch ==
    /\ pc = "sleep_batch"
    /\ Apply(NextBatch(Loop))
    /\ UNCHANGED <<env, has_openai, coffees, last_update_time>>

\* KeyboardInterrupt during a pacing sleep
InterruptInSleep ==
    /\ pc \in {"sleep_record", "sleep_batch"}
    /\ Apply(Exit(Loop, EXIT_INTERRUPTED, "interrupted"))
    /\ UNCHANGED <<env, has_openai, coffees, last_update_time>>

Next ==
    \/ InitializeClients
    \/ FetchCoffees
    \/ Prompt
    \/ UpdateCoffee
    \/ InterruptInGenerate
    \/ InterruptInRpc
    \/ WakeRecord
    \/ WakeBatch
    \/ InterruptInSleep

\* ---------------------------------------------------------- specifications
\* Tag sequences: empty, matching no keyword, some keyword, every keyword
TagSeqs == {<<>>, <<NoKeyword>>, <<{"chocolate"}, NoKeyword>>, <<Keywords, {"fruity", "sweet"}>>}

\* sequences over S of length 0..n
RECURSIVE SeqsUpTo(_, _)
SeqsUpTo(S, n) ==
    IF n = 0 THEN {<<>>}
    ELSE LET shorter == SeqsUpTo(S, n - 1)
         IN  shorter \cup {Append(q, x) : q \in shorter, x \in S}

\* Spec: whole runs over records that differ in their tags and in what the
\* services reply for them; no earlier run is logged
RunProfiles ==
    {Profile(<<>>, <<1, 1>>, <<0, 2>>, 0, GenOk, "true"),
     Profile(<<NoKeyword>>, <<1, 1>>, <<0, 2>>, 0, GenOk, "true"),
     Profile(<<{"chocolate"}, NoKeyword>>, <<1, 1>>, <<0, 2>>, 0, GenOk, "false"),
     Profile(<<Keywords, {"fruity", "sweet"}>>, <<1, 1>>, <<0, 2>>, 0, GenOk, "raise")} \cup
    {Profile(<<NoKeyword>>, <<1, 1>>, <<0, 2>>, 0, g, "true") : g \in GenReplies \ {GenOk}}

RunArgs ==
    [force_all : BOOLEAN, dry_run : BOOLEAN, batch_size : 0..MaxBatch,
     delay : {DELAY_BETWEEN_REQUESTS}, batch_delay : {DELAY_BETWEEN_BATCHES}]

Init == InitWith(RunProfiles, {<<>>}, RunArgs)

Spec == Init /\ [][Next]_vars

\* SpecDetect: the run up to the work set, over records that differ in their
\* timestamps and stored embedding, and over logs of earlier runs
DetectProfiles ==
    {Profile(<<NoKeyword>>, <<0, 2>>, <<0, 2>>, VECTOR_DIMENSIONS, GenOk, "true"),
     Profile(<<NoKeyword>>, <<2, 0>>, <<0, 2>>, VECTOR_DIMENSIONS, GenOk, "true"),
     Profile(<<NoKeyword>>, <<0, 2>>, <<0, 2>>, 0, GenOk, "true"),
     Profile(<<NoKeyword>>, <<>>, <<2, 0>>, VECTOR_DIMENSIONS, GenOk, "true"),
     Profile(<<NoKeyword>>, <<>>, <<0, 2>>, VECTOR_DIMENSIONS, GenOk, "true"),
     Profile(<<NoKeyword>>, <<>>, <<>>, VECTOR_DIMENSIONS, GenOk, "true"),
     Profile(<<NoKeyword>>, <<0, 2>>, <<2, 0>>, VECTOR_DIMENSIONS, GenOk, "true"),
     Profile(<<>>, <<2, 0>>, <<0, 2>>, 0, GenOk, "true")}

LogTimes == {<<1, 1>>, <<2, 0>>}

DetectArgs ==
    [force_all : BOOLEAN, dry_run : {FALSE}, batch_size : {MaxBatch},
     delay : {DELAY_BETWEEN_REQUESTS}, batch_delay : {DELAY_BETWEEN_BATCHES}]

InitDetect == InitWith(DetectProfiles, SeqsUpTo(LogTimes, MaxLogs), DetectArgs)

NextDetect ==
    \/ InitializeClients
    \/ FetchCoffees

SpecDetect == InitDetect /\ [][NextDetect]_vars

\* ------------------------------------------------------- claim vocabulary
Completed == pc = "exited" /\ "final_results" \in log

\* get_coffee_data has returned
Fetched ==
    /\ pc \notin {"start", "fetch"}
    /\ log \cap {"missing_credentials", "client_init_failed"} = {}

Ids(ws) == [k \in 1..Len(ws) |-> ws[k].id]

\* ids of the records handed to update_coffee_embedding so far, in order
Visited ==
    LET recs == SelectSeq(events, LAMBDA e : e.ev = "record")
    IN  [k \in 1..Len(recs) |-> recs[k].id]

\* the events a step appends
Appended == SubSeq(events', Len(events) + 1, Len(events'))

GenSucceeds(coffee) ==
    /\ coffee.flavor_tags # <<>>
    /\ has_openai => openai_reply[coffee.id] = GenOk

\* the per-record errors: empty tags, transport error, dimension mismatch,
\* update RPC returning failure or raising
PerRecordError(coffee) ==
    \/ coffee.flavor_tags = <<>>
    \/ coffee.flavor_tags # <<>> /\ has_openai /\ openai_reply[coffee.id].raises
    \/ coffee.flavor_tags # <<>> /\ has_openai /\ ~openai_reply[coffee.id].raises
         /\ openai_reply[coffee.id].len # VECTOR_DIMENSIONS
    \/ GenSucceeds(coffee) /\ ~args.dry_run /\ rpc_reply[coffee.id] \in {"false", "raise"}

\* C1: a per-record error only increments failed and the run goes on: the step
\* that processes such a record adds one to failed, leaves updated alone and
\* ends the run only after the last record, with the normal exit; and a run
\* that completes has processed every record of the work set
C1_ErrorsIsolated ==
    /\ [][(pc = "record" /\ PerRecordError(batch[pos]) /\ "interrupted" \notin log') =>
            /\ failed' = failed + 1
            /\ updated' = updated
            /\ pc' \in {"record", "sleep_record", "sleep_batch", "exited"}
            /\ pc' = "exited" =>
                 /\ i + pos = Len(coffees)
                 /\ exit_status' = <<0>>
                 /\ "final_results" \in log']_vars
    /\ [](Completed => Visited = Ids(coffees))

C1_Witness ==
    /\ Completed
    /\ Len(coffees) = 3
    /\ PerRecordError(coffees[1])
    /\ PerRecordError(coffees[2])
    /\ failed = 2
    /\ updated = 1

\* updated_count of a complete run over ws[k..] with the given dry_run
RECURSIVE RunUpdated(_, _, _)
RunUpdated(ws, k, dry_run) ==
    IF k > Len(ws) THEN 0
    ELSE (IF update_coffee_embedding(ws[k], openai_reply[ws[k].id], rpc_reply[ws[k].id],
                                     has_openai, dry_run).success THEN 1 ELSE 0)
         + RunUpdated(ws, k + 1, dry_run)

\* records of ws[k..] whose update RPC is issued by a live run and fails
RECURSIVE WriteFailures(_, _)
WriteFailures(ws, k) ==
    IF k > Len(ws) THEN 0
    ELSE (IF GenSucceeds(ws[k]) /\ rpc_reply[ws[k].id] # "true" THEN 1 ELSE 0)
         + WriteFailures(ws, k + 1)

NoRpcIssued == \A k \in 1..Len(events) : events[k].ev # "rpc"

GeneratedForEach ==
    \A k \in 1..Len(coffees) :
        coffees[k].flavor_tags # <<>> =>
            \E e \in 1..Len(events) :
                /\ events[e].ev \in {"openai", "fallback"}
                /\ events[e].id = coffees[k].id

\* C2 as stated: a completed dry run ends with the updated count of the live
\* run over the same work set and replies, issues no update RPC, and runs the
\* generator for every record with tags
C2_DryRunSameCount ==
    /\ args.dry_run => NoRpcIssued
    /\ (Completed /\ args.dry_run) =>
         /\ updated = RunUpdated(coffees, 1, FALSE)
         /\ GeneratedForEach

\* C2 amended: a completed run ends with the count of its own mode; a dry run
\* issues no update RPC, runs the generator for every record with tags, and its
\* count is the live run's count plus the number of records whose update RPC
\* fails in the live run
C2_DryRunCount ==
    /\ args.dry_run => NoRpcIssued
    /\ Completed => updated = RunUpdated(coffees, 1, args.dry_run)
    /\ (Completed /\ args.dry_run) =>
         /\ updated = RunUpdated(coffees, 1, FALSE) + WriteFailures(coffees, 1)
         /\ GeneratedForEach

C2_Witness ==
    /\ Completed
    /\ args.dry_run
    /\ Len(coffees) = 3
    /\ updated = 2
    /\ RunUpdated(coffees, 1, FALSE) = 1
    /\ WriteFailures(coffees, 1) = 1

\* the time a timestamp string denotes
TimeOf(t) == 10 * t[1] + t[2]

ChangedSince(coffee, last) ==
    LET t == IF coffee.updated_at # <<>> THEN coffee.updated_at ELSE coffee.created_at
    IN  t # <<>> /\ TimeOf(t) > TimeOf(last)

InWorkSet(coffee) == \E k \in 1..Len(coffees) : coffees[k] = coffee

\* C3: with force_all unset and a prior sync time, a record is in the work set
\* exactly when its updated_at (created_at when updated_at is absent) is
\* strictly later than the sync time compared against, or it has no embedding
C3_StaleSelection ==
    (Fetched /\ last_update_time # <<>>) =>
        \A k \in 1..Len(catalog) :
            InWorkSet(catalog[k]) <=>
                \/ ChangedSince(catalog[k], last_update_time)
                \/ catalog[k].flavor_embedding = 0

C3_Witness ==
    /\ Fetched
    /\ ~args.force_all
    /\ last_update_time = <<1, 1>>
    /\ \E a, b, c \in 1..Len(catalog) :
         /\ catalog[a].updated_at = <<0, 2>> /\ catalog[a].flavor_embedding # 0
         /\ ~InWorkSet(catalog[a])
         /\ catalog[b].updated_at = <<>> /\ catalog[b].created_at = <<2, 0>>
         /\ catalog[b].flavor_embedding # 0 /\ InWorkSet(catalog[b])
         /\ catalog[c].updated_at = <<0, 2>> /\ catalog[c].flavor_embedding = 0
         /\ InWorkSet(catalog[c])

\* C4: no record with an empty flavor_tags sequence is in the work set
C4_EmptyTagsExcluded ==
    \A k \in 1..Len(coffees) : coffees[k].flavor_tags # <<>>

\* C5: when update_logs holds no entry and the catalog was read, the work set
\* is the whole catalog, whatever the records' timestamps and embeddings
C5_NoLogReturnsAll ==
    (Fetched /\ update_logs = <<>> /\ "error_fetching" \notin log) => coffees = catalog

C5_Witness ==
    /\ Fetched
    /\ ~args.force_all
    /\ update_logs = <<>>
    /\ "error_fetching" \notin log
    /\ Len(coffees) = 3
    /\ \E a, b \in 1..Len(coffees) :
         /\ coffees[a].flavor_embedding # 0 /\ coffees[a].updated_at = <<0, 2>>
         /\ coffees[b].updated_at = <<>> /\ coffees[b].created_at = <<>>

\* len(batch) of every iteration of "for i in range(0, len(ws), size)"
RECURSIVE BatchLens(_, _, _)
BatchLens(ws, start, size) ==
    IF start >= Len(ws) THEN <<>>
    ELSE <<Len(Batch(ws, start, size))>> \o BatchLens(ws, start + size, size)

\* the batch lengths for 13 records and the default batch size
BatchLensOfThirteen == BatchLens([k \in 1..13 |-> k], 0, BATCH_SIZE)

BatchEvents == SelectSeq(events, LAMBDA e : e.ev = "batch")

IsPrefix(p, q) == Len(p) <= Len(q) /\ SubSeq(q, 1, Len(p)) = p

\* C6: the batches are consecutive slices of batch_size records, only the last
\* possibly shorter, ceil(N/B) of them (13 records by 5: sizes 5, 5, 3), and
\* the records are visited once each, in work-set order
C6_Batches ==
    /\ IsPrefix(Visited, Ids(coffees))
    /\ \A b \in 1..Len(BatchEvents) :
         /\ BatchEvents[b].id = (b - 1) * args.batch_size
         /\ BatchEvents[b].n \in 1..args.batch_size
         /\ b < Len(BatchEvents) => BatchEvents[b].n = args.batch_size
    /\ Completed =>
         /\ Visited = Ids(coffees)
         /\ Len(BatchEvents) = (Len(coffees) + args.batch_size - 1) \div args.batch_size
         /\ (Len(BatchEvents) - 1) * args.batch_size + BatchEvents[Len(BatchEvents)].n
              = Len(coffees)
    /\ BatchLensOfThirteen = <<5, 5, 3>>

C6_Witness ==
    /\ Completed
    /\ Len(coffees) = 3
    /\ args.batch_size = 2
    /\ Len(BatchEvents) = 2
    /\ BatchEvents[2].n = 1

\* C7: the step that processes a record with empty flavor_tags calls neither
\* generator, issues no update RPC, stores nothing, and adds one to failed
C7_EmptyTagsSkipped ==
    [][(pc = "record" /\ batch[pos].flavor_tags = <<>>) =>
         /\ \A k \in 1..Len(Appended) : Appended[k].ev \notin {"openai", "fallback", "rpc"}
         /\ Appended[1] = Event("record", batch[pos].id, 0)
         /\ catalog' = catalog
         /\ failed' = failed + 1
         /\ updated' = updated]_vars

C7_Witness ==
    /\ Completed
    /\ failed = 1
    /\ updated = 2
    /\ coffees[2].flavor_tags = <<>>

\* C8: the command exits 0 when the run completes, and nonzero after a fatal
\* setup failure (missing credentials, client initialisation, catalog read
\* failing) and after a user interrupt
C8_ExitStatus ==
    pc = "exited" =>
        /\ "final_results" \in log => exit_status = <<0>>
        /\ log \cap {"missing_credentials", "client_init_failed", "error_fetching",
                     "interrupted"} # {} => exit_status # <<0>>

\* C9: a run interrupted at a suspension point of its loop exits with a status
\* that is neither 0 nor the status of an unhandled failure, having reported
\* the counts accumulated so far
C9_InterruptStatus ==
    (pc = "exited" /\ "interrupted" \in log /\ events # <<>>) =>
        /\ exit_status # <<0>>
        /\ exit_status # <<EXIT_UNHANDLED>>
        /\ reported = <<updated, failed>>

\* the lengths the fallback generator returns for the non-empty tag sequences
FallbackLengths == {generate_fallback_embedding(tags) : tags \in TagSeqs \ {<<>>}}

\* coffees whose embedding-service reply had a wrong number of elements and
\* whose processing has finished
Rejected ==
    {coffees[k].id : k \in {j \in 1..Len(coffees) :
        /\ has_openai
        /\ coffees[j].flavor_tags # <<>>
        /\ ~openai_reply[coffees[j].id].raises
        /\ openai_reply[coffees[j].id].len # VECTOR_DIMENSIONS
        /\ j <= Len(Visited)}}

\* C10: every vector handed to the update RPC has VECTOR_DIMENSIONS elements;
\* a primary result of another length reaches no update RPC and its record is
\* counted failed; the fallback generator returns VECTOR_DIMENSIONS elements
\* for tags matching no, some or every keyword
C10_VectorLength ==
    /\ \A k \in 1..Len(events) :
         /\ events[k].ev = "rpc" => events[k].n = VECTOR_DIMENSIONS
         /\ events[k].ev = "fallback" => events[k].n = VECTOR_DIMENSIONS
         /\ events[k].ev = "rpc" => events[k].id \notin Rejected
    /\ "interrupted" \notin log => failed >= Cardinality(Rejected)
    /\ FallbackLengths = {VECTOR_DIMENSIONS}

C10_Witness ==
    /\ Completed
    /\ has_openai
    /\ ~args.dry_run
    /\ Cardinality(Rejected) = 2
    /\ \E k \in 1..Len(events) : events[k].ev = "rpc" /\ events[k].n = VECTOR_DIMENSIONS

\* indices in events of the "record" events, in order
RECURSIVE RecordPositions(_)
RecordPositions(k) ==
    IF k > Len(events) THEN <<>>
    ELSE (IF events[k].ev = "record" THEN <<k>> ELSE <<>>) \o RecordPositions(k + 1)

\* the pacing sleeps begun after the j-th record event and before the next one
SleepsAfter(j) ==
    LET at == RecordPositions(1)
        from == at[j] + 1
        to == IF j < Len(at) THEN at[j + 1] - 1 ELSE Len(events)
    IN  SelectSeq(SubSeq(events, from, to),
                  LAMBDA e : e.ev \in {"sleep_record", "sleep_batch"})

\* the j-th record of the work set is the last of its batch
LastOfBatch(j) == j % args.batch_size = 0 \/ j = Len(coffees)

\* C11: with positive delays, the record delay is slept after every processed
\* record that is not the last of its batch, the batch delay after the last
\* record of every batch but the final one, and nothing else: one pacing
\* sleep between two consecutive records, none after the last record
C11_Pacing ==
    (args.delay > 0 /\ args.batch_delay > 0) =>
        \A j \in 1..Len(Visited) :
            SleepsAfter(j) =
                IF j > updated + failed THEN <<>>
                ELSE IF ~LastOfBatch(j)
                THEN <<Event("sleep_record", coffees[j].id, args.delay)>>
                ELSE IF j < Len(coffees)
                THEN <<Event("sleep_batch", 0, args.batch_delay)>>
                ELSE <<>>

C11_Witness ==
    /\ Completed
    /\ args.delay > 0
    /\ args.batch_delay > 0
    /\ args.batch_size = 2
    /\ Len(coffees) = 3
    /\ SleepsAfter(1) = <<Event("sleep_record", coffees[1].id, args.delay)>>
    /\ SleepsAfter(2) = <<Event("sleep_batch", 0, args.batch_delay)>>
    /\ SleepsAfter(3) = <<>>

\* the latest of a non-empty sequence of timestamps
RECURSIVE LatestTime(_, _)
LatestTime(times, k) ==
    IF k = Len(times) THEN TimeOf(times[k])
    ELSE LET rest == LatestTime(times, k + 1)
         IN  IF TimeOf(times[k]) > rest THEN TimeOf(times[k]) ELSE rest

\* C12: when update_logs holds entries, the sync time the detector compares
\* against is the latest created_at among them, in whatever order the
\* gateway returned them
C12_MostRecentEntry ==
    (Fetched /\ last_update_time # <<>>) =>
        TimeOf(last_update_time) = LatestTime(update_logs, 1)

\* the number of work-set records whose processing has ended, by the position
\* of main() in its loops
ProcessedSoFar ==
    CASE pc = "record" -> i + pos - 1
      [] pc = "sleep_record" -> i + pos
      [] pc = "sleep_batch" -> i + Len(batch)
      [] OTHER -> Len(coffees)

\* C13: at the end of every batch updated + failed is the batch's start
\* offset plus its length, and at the end of the run the size of the work
\* set; the step that processes a record adds one to exactly one of the two
\* counters, and no step lowers either
C13_CountersAccount ==
    /\ [](pc \in {"record", "sleep_record", "sleep_batch"} \/ Completed
            => updated + failed = ProcessedSoFar)
    /\ [][/\ updated' >= updated
          /\ failed' >= failed
          /\ (pc = "record" /\ "interrupted" \notin log') =>
                \/ updated' = updated + 1 /\ failed' = failed
                \/ updated' = updated /\ failed' = failed + 1
          /\ (pc # "record" \/ "interrupted" \in log') =>
                updated' = updated /\ failed' = failed]_vars

C13_Witness ==
    /\ pc = "sleep_batch"
    /\ args.batch_size = 2
    /\ Len(coffees) = 3
    /\ i = 0
    /\ updated = 1
    /\ failed = 1
    /\ reported = <<1, 1>>

====
